---- MODULE Spec2Model ----
(***************************************************************************)
(* Model of src/amazon.py: the dashboard script's data loading (lines      *)
(* 63-105) and its cleaning / feature-engineering pipeline (lines 110-119). *)
(* The script runs top to bottom once; pc is its position.  df is the one   *)
(* table, mutated in place.  An uncaught exception ends the run and leaves  *)
(* df as the statements before it left it.                                  *)
(***************************************************************************)
EXTENDS Integers, Sequences, FiniteSets, TLC

VARIABLES
    dataset_option,   \* the sidebar radio's value (line 58)
    uploaded_file,    \* what the file uploader holds (line 69)
    df,               \* the table (line 63 onwards)
    numeric_cols,     \* line 110
    pc,               \* position in the script
    error,            \* the exception that ended the run, "" if none
    steps,            \* the pipeline statements executed so far, in order
    loaded            \* history: df as the loading section left it

vars == <<dataset_option, uploaded_file, df, numeric_cols, pc, error, steps, loaded>>

\* ------------------------------------------------------------------ bounds
MaxRows == 3          \* rows of an uploaded table
SampleRows == 2       \* rows of the generated sample (n = 200 in the script)

\* ------------------------------------------------------------------ cells
\* A cell is a record tagged by its kind: a float/int number (kept as an
\* exact fraction n/d), the missing number NaN, a string of an object
\* column, a date written as text "YYYY-MM-DD", a parsed Timestamp (by its
\* proleptic Gregorian ordinal) or the missing Timestamp NaT.
NaN == [k |-> "nan"]
NaT == [k |-> "nat"]
Str(s) == [k |-> "str", s |-> s]
DateText(y, m, d) == [k |-> "datetext", y |-> y, m |-> m, d |-> d]
Ts(o) == [k |-> "ts", ord |-> o]

Abs(x) == IF x < 0 THEN -x ELSE x

RECURSIVE Gcd(_, _)
Gcd(a, b) == IF b = 0 THEN a ELSE Gcd(b, a % b)

\* the fraction n/d (d # 0) in lowest terms with a positive denominator
Num(n, d) ==
    LET g == Gcd(Abs(n), Abs(d))
        s == IF d < 0 THEN -1 ELSE 1
    IN  [k |-> "num", n |-> (s * n) \div g, d |-> (s * d) \div g]

Int2Num(i) == Num(i, 1)
IsNum(c) == c.k = "num"
IsMissing(c) == c.k = "nan"

RatAdd(a, b) == Num(a.n * b.d + b.n * a.d, a.d * b.d)
RatSub(a, b) == Num(a.n * b.d - b.n * a.d, a.d * b.d)
RatMul(a, b) == Num(a.n * b.n, a.d * b.d)
RatDiv(a, b) == Num(a.n * b.d, a.d * b.n)
RatLe(a, b) == a.n * b.d <= b.n * a.d
RatLt(a, b) == a.n * b.d < b.n * a.d

\* ------------------------------------------------------------------ tables
\* A table is its column set and its rows; a row maps each column to a cell.
NoneDF == [none |-> TRUE, cols |-> {}, rows |-> <<>>]
Table(cols, rows) == [none |-> FALSE, cols |-> cols, rows |-> rows]
NRows(t) == Len(t.rows)
Column(t, c) == [i \in 1..NRows(t) |-> t.rows[i][c]]

\* df[c] = values: c is added when absent, replaced when present
SetColumn(t, c, values) ==
    Table(t.cols \cup {c},
          [i \in 1..NRows(t) |->
              [x \in t.cols \cup {c} |-> IF x = c THEN values[i] ELSE t.rows[i][x]]])

DropColumn(t, c) ==
    Table(t.cols \ {c},
          [i \in 1..NRows(t) |-> [x \in t.cols \ {c} |-> t.rows[i][x]]])

ExpectedCols ==
    {"Order_ID", "Order_Date", "Delivery_Date", "Shipping_Cost",
     "Return_Reason", "Purchase_Frequency", "Monetary_Value"}
DerivedCols == {"Lead_Time_Days", "RFM_Score", "Normalized_Shipping_Cost"}

\* ------------------------------------------------------------------ dates
IsLeap(y) == (y % 4 = 0) /\ ((y % 100 # 0) \/ (y % 400 = 0))

DaysInMonth(y, m) ==
    IF m = 2 THEN (IF IsLeap(y) THEN 29 ELSE 28)
    ELSE IF m \in {4, 6, 9, 11} THEN 30 ELSE 31

RECURSIVE DaysBeforeMonth(_, _)
DaysBeforeMonth(y, m) ==
    IF m <= 1 THEN 0 ELSE DaysBeforeMonth(y, m - 1) + DaysInMonth(y, m - 1)

\* the day number of y-m-d, counting 0001-01-01 as day 1
ToOrdinal(y, m, d) ==
    365 * (y - 1) + ((y - 1) \div 4) - ((y - 1) \div 100) + ((y - 1) \div 400)
        + DaysBeforeMonth(y, m) + d

ValidDate(y, m, d) ==
    /\ y >= 1
    /\ m \in 1..12
    /\ d >= 1
    /\ d <= DaysInMonth(y, m)

\* pd.to_datetime(cell, errors="coerce"): a Timestamp stays, a date text is
\* parsed when it names a day of the calendar, a number counts nanoseconds
\* from 1970-01-01 (every number of the model is within that day), and
\* anything else (missing, unparseable text) becomes NaT instead of raising.
ToDatetimeCell(c) ==
    IF c.k = "ts" THEN c
    ELSE IF c.k = "datetext"
        THEN (IF ValidDate(c.y, c.m, c.d) THEN Ts(ToOrdinal(c.y, c.m, c.d)) ELSE NaT)
    ELSE IF c.k = "num" THEN Ts(ToOrdinal(1970, 1, 1))
    ELSE NaT

ToDatetime(col) == [i \in DOMAIN col |-> ToDatetimeCell(col[i])]

\* LeadTimeCell with negative differences clamped to 0
LeadTimeCellClamped(delivery, order) ==
    IF delivery.k = "ts" /\ order.k = "ts"
        THEN Int2Num(IF delivery.ord < order.ord THEN 0 ELSE delivery.ord - order.ord)
        ELSE NaN

\* (delivery - order).dt.days for one row: NaT on either side gives NaN
LeadTimeCell(delivery, order) ==
    IF delivery.k = "ts" /\ order.k = "ts"
        THEN Int2Num(delivery.ord - order.ord)
        ELSE NaN

\* ------------------------------------------------------------------ dtypes
\* df.select_dtypes(include=np.number): the columns read as int64/float64,
\* which are the columns of a non-empty table whose cells are all numbers
\* or missing (a column with no value at all is read as float64; the
\* columns of a table with no rows are read as object).
SelectNumeric(t) ==
    {c \in t.cols :
        /\ NRows(t) > 0
        /\ \A i \in 1..NRows(t) : t.rows[i][c].k \in {"num", "nan"}}

\* ------------------------------------------------------------------ SimpleImputer
RECURSIVE NanSum(_, _)
NanSum(col, n) ==
    IF n = 0 THEN Int2Num(0)
    ELSE IF IsNum(col[n]) THEN RatAdd(NanSum(col, n - 1), col[n])
    ELSE NanSum(col, n - 1)

NanCount(col) == Cardinality({i \in DOMAIN col : IsNum(col[i])})

\* NanMean dividing by the number of rows, missing ones included
NanMeanAllRows(col) ==
    IF NanCount(col) = 0 THEN NaN
    ELSE RatDiv(NanSum(col, Len(col)), Int2Num(Len(col)))

\* the imputer's statistic of a column: the mean of its observed values,
\* NaN when it has none
NanMean(col) ==
    IF NanCount(col) = 0 THEN NaN
    ELSE RatDiv(NanSum(col, Len(col)), Int2Num(NanCount(col)))

\* FillCell that fills nothing
FillCellNever(c, stat) == c

FillCell(c, stat) == IF IsMissing(c) THEN stat ELSE c

\* the nearest observed cell above row i of a column, NaN when there is none
RECURSIVE ObservedAbove(_, _)
ObservedAbove(col, i) ==
    IF i <= 1 THEN NaN
    ELSE IF IsNum(col[i - 1]) THEN col[i - 1] ELSE ObservedAbove(col, i - 1)

\* ImputerFitTransform filling forward: a missing cell takes the observed
\* value above it, the column mean when there is none above
ImputerForwardFill(t, cols) ==
    LET stat == [c \in cols |-> NanMean(Column(t, c))]
        kept == {c \in cols : IsNum(stat[c])}
    IN  Table(kept,
              [i \in 1..NRows(t) |-> [c \in kept |->
                  IF ~IsMissing(t.rows[i][c]) THEN t.rows[i][c]
                  ELSE IF IsNum(ObservedAbove(Column(t, c), i))
                      THEN ObservedAbove(Column(t, c), i)
                      ELSE stat[c]]])

\* SimpleImputer(strategy='mean').fit_transform(df[cols]): the columns
\* without any observed value are dropped from the output, the others have
\* their missing cells replaced by the column mean.
ImputerFitTransform(t, cols) ==
    LET stat == [c \in cols |-> NanMean(Column(t, c))]
        kept == {c \in cols : IsNum(stat[c])}
    IN  Table(kept,
              [i \in 1..NRows(t) |-> [c \in kept |-> FillCell(t.rows[i][c], stat[c])]])

\* AssignColumns with the rows of out misaligned by one
AssignColumnsShifted(t, cols, out) ==
    Table(t.cols,
          [i \in 1..NRows(t) |->
              [c \in t.cols |->
                  IF c \in cols THEN out.rows[(i % NRows(t)) + 1][c] ELSE t.rows[i][c]]])

\* df[cols] = out (line 113): out's columns replace df's, and the assignment
\* raises ValueError when out has fewer columns than cols.
AssignColumns(t, cols, out) ==
    Table(t.cols,
          [i \in 1..NRows(t) |->
              [c \in t.cols |-> IF c \in cols THEN out.rows[i][c] ELSE t.rows[i][c]]])

\* lines 111-113 as a function of the table: the table afterwards and
\* whether the statement raised
Impute(t, cols) ==
    IF cols = {} THEN [ok |-> TRUE, df |-> t]
    ELSE LET out == ImputerFitTransform(t, cols)
         IN  IF out.cols # cols THEN [ok |-> FALSE, df |-> t]
             ELSE [ok |-> TRUE, df |-> AssignColumns(t, cols, out)]

\* ------------------------------------------------------------------ MinMaxScaler
RECURSIVE NanMin(_, _)
NanMin(col, n) ==
    IF n = 0 THEN NaN
    ELSE LET rest == NanMin(col, n - 1)
         IN  IF ~IsNum(col[n]) THEN rest
             ELSE IF ~IsNum(rest) THEN col[n]
             ELSE IF RatLt(col[n], rest) THEN col[n] ELSE rest

RECURSIVE NanMax(_, _)
NanMax(col, n) ==
    IF n = 0 THEN NaN
    ELSE LET rest == NanMax(col, n - 1)
         IN  IF ~IsNum(col[n]) THEN rest
             ELSE IF ~IsNum(rest) THEN col[n]
             ELSE IF RatLt(rest, col[n]) THEN col[n] ELSE rest

\* a zero range is replaced by 1 before dividing
HandleZerosInScale(range) == IF range = Int2Num(0) THEN Int2Num(1) ELSE range

\* ScalerScale dividing by the maximum instead of the range
ScalerScaleByMax(col) ==
    RatDiv(Int2Num(1), HandleZerosInScale(NanMax(col, Len(col))))

\* the fitted scale_ and min_ of feature range (0, 1)
ScalerScale(col) ==
    RatDiv(Int2Num(1),
           HandleZerosInScale(RatSub(NanMax(col, Len(col)), NanMin(col, Len(col)))))
ScalerMin(col) ==
    RatSub(Int2Num(0), RatMul(NanMin(col, Len(col)), ScalerScale(col)))

\* MinMaxScaler().fit_transform(col): X * scale_ + min_, missing cells stay
\* missing; ok is FALSE where fit raises (no rows, or a cell that is no number)
MinMaxFitTransform(col) ==
    IF Len(col) = 0 \/ \E i \in DOMAIN col : col[i].k \notin {"num", "nan"}
        THEN [ok |-> FALSE, values |-> col]
    ELSE IF NanCount(col) = 0
        THEN [ok |-> TRUE, values |-> col]
    ELSE [ok |-> TRUE,
          values |-> [i \in DOMAIN col |->
              IF IsNum(col[i])
                  THEN RatAdd(RatMul(col[i], ScalerScale(col)), ScalerMin(col))
                  ELSE NaN]]

\* ------------------------------------------------------------------ features
\* RfmCell adding instead of multiplying
RfmCellSum(freq, money) ==
    IF IsNum(freq) /\ IsNum(money) THEN RatAdd(freq, money) ELSE NaN

\* one row of df["Purchase_Frequency"] * df["Monetary_Value"]
RfmCell(freq, money) ==
    IF IsNum(freq) /\ IsNum(money) THEN RatMul(freq, money) ELSE NaN

\* ------------------------------------------------------------------ pipeline statements
\* Each statement of lines 110-119 as a function of the table: the table it
\* leaves and whether it completed (ok) or raised.  A statement that raises
\* leaves the table as it found it; what earlier statements did stays.
Done(t) == [ok |-> TRUE, df |-> t]
Raised(t) == [ok |-> FALSE, df |-> t]

\* line 115
ParseOrderDate(t) ==
    IF "Order_Date" \notin t.cols THEN Raised(t)
    ELSE Done(SetColumn(t, "Order_Date", ToDatetime(Column(t, "Order_Date"))))

\* line 116
ParseDeliveryDate(t) ==
    IF "Delivery_Date" \notin t.cols THEN Raised(t)
    ELSE Done(SetColumn(t, "Delivery_Date", ToDatetime(Column(t, "Delivery_Date"))))

\* line 117
LeadTime(t) ==
    IF {"Order_Date", "Delivery_Date"} \subseteq t.cols
        THEN Done(SetColumn(t, "Lead_Time_Days",
                 [i \in 1..NRows(t) |->
                     LeadTimeCell(t.rows[i]["Delivery_Date"], t.rows[i]["Order_Date"])]))
        ELSE Raised(t)

\* line 118
RfmScore(t) ==
    IF {"Purchase_Frequency", "Monetary_Value"} \subseteq t.cols
        THEN Done(SetColumn(t, "RFM_Score",
                 [i \in 1..NRows(t) |->
                     RfmCell(t.rows[i]["Purchase_Frequency"], t.rows[i]["Monetary_Value"])]))
        ELSE Raised(t)

\* line 119
NormalizeShippingCost(t) ==
    IF "Shipping_Cost" \notin t.cols THEN Raised(t)
    ELSE LET out == MinMaxFitTransform(Column(t, "Shipping_Cost"))
         IN  IF out.ok THEN Done(SetColumn(t, "Normalized_Shipping_Cost", out.values))
             ELSE Raised(t)

\* lines 110-113
Clean(t) == Impute(t, SelectNumeric(t))

\* StepOrder with the imputation moved to the end
StepOrderImputeLast ==
    <<"order_date", "delivery_date", "lead_time", "rfm", "normalize", "impute">>

\* the statements in script order, by the name pc gives them
StepOrder == <<"impute", "order_date", "delivery_date", "lead_time", "rfm", "normalize">>

Statement(name, t) ==
    CASE name = "impute" -> Clean(t)
      [] name = "order_date" -> ParseOrderDate(t)
      [] name = "delivery_date" -> ParseDeliveryDate(t)
      [] name = "lead_time" -> LeadTime(t)
      [] name = "rfm" -> RfmScore(t)
      [] name = "normalize" -> NormalizeShippingCost(t)

\* the statement that follows name, "done" after the last
After(name) ==
    LET k == CHOOSE i \in DOMAIN StepOrder : StepOrder[i] = name
    IN  IF k < Len(StepOrder) THEN StepOrder[k + 1] ELSE "done"

\* lines 110-119 run from statement k on: stops at the first that raises
RECURSIVE RunFrom(_, _)
RunFrom(k, t) ==
    IF k > Len(StepOrder) THEN Done(t)
    ELSE LET r == Statement(StepOrder[k], t)
         IN  IF r.ok THEN RunFrom(k + 1, r.df) ELSE r

Pipeline(t) == RunFrom(1, t)

\* ------------------------------------------------------------------ inputs
NoFile == [kind |-> "none"]
CorruptFile == [kind |-> "corrupt"]
FileOf(t) == [kind |-> "table", table |-> t]

\* one uploaded row: Order_ID is the row's position in the file
UploadRow(i, r) ==
    [Order_ID |-> Int2Num(i), Order_Date |-> r.od, Delivery_Date |-> r.dd,
     Shipping_Cost |-> r.sc, Return_Reason |-> r.rr,
     Purchase_Frequency |-> r.pf, Monetary_Value |-> r.mv]

PlainRow ==
    [od |-> DateText(2023, 1, 1), dd |-> DateText(2023, 1, 3), sc |-> Int2Num(10),
     rr |-> Str("Damaged"), pf |-> Int2Num(2), mv |-> Int2Num(100)]

\* rows that differ in their dates: early and late orders, a delivery before
\* the order, a delivery date that is no day of the calendar, missing dates
DateRows ==
    {[PlainRow EXCEPT !.od = o, !.dd = d] :
        o \in {DateText(2023, 1, 1), DateText(2023, 1, 5), NaN},
        d \in {DateText(2023, 1, 4), DateText(2023, 2, 30), NaN}}

\* rows that differ in shipping cost
CostRows ==
    {[PlainRow EXCEPT !.sc = c] : c \in {Int2Num(10), Int2Num(20), Int2Num(30), NaN}}

\* rows that differ in purchase frequency and monetary value
RfmRows ==
    {[PlainRow EXCEPT !.pf = f, !.mv = m] :
        f \in {Int2Num(2), Int2Num(5), NaN},
        m \in {Int2Num(100), Int2Num(50), NaN}}

\* rows that differ in return reason, with and without a shipping cost
ReasonRows ==
    {[PlainRow EXCEPT !.rr = r, !.sc = c] :
        r \in {Str("Late Delivery"), NaN},
        c \in {Int2Num(10), Int2Num(30), NaN}}

\* rows with gaps in several columns at once
MixedRows ==
    {PlainRow,
     [PlainRow EXCEPT !.pf = NaN, !.dd = NaN],
     [PlainRow EXCEPT !.sc = Int2Num(30), !.mv = NaN],
     [PlainRow EXCEPT !.sc = NaN, !.od = NaN, !.rr = NaN],
     [PlainRow EXCEPT !.sc = Int2Num(20), !.pf = Int2Num(5), !.mv = Int2Num(50),
                      !.od = DateText(2023, 1, 5), !.dd = DateText(2023, 1, 4)]}

RowFamilies == {DateRows, CostRows, RfmRows, ReasonRows, MixedRows}

UploadTable(n, f) == Table(ExpectedCols, [i \in 1..n |-> UploadRow(i, f[i])])

\* rows of the tables that may lack a column
ShapeRows == {[PlainRow EXCEPT !.sc = c] : c \in {Int2Num(10), Int2Num(30), NaN}}

\* The uploads: no file, a file that cannot be parsed, a complete table
\* whose rows come from one of the families, or a table (one with a header
\* and no rows among them) that lacks one column.
UploadChoice(families) ==
    \/ uploaded_file \in {NoFile, CorruptFile}
    \/ \E rows \in families : \E n \in 1..MaxRows : \E f \in [1..n -> rows] :
          uploaded_file = FileOf(UploadTable(n, f))
    \/ \E n \in 0..MaxRows : \E f \in [1..n -> ShapeRows] :
          \/ uploaded_file = FileOf(UploadTable(n, f))
          \/ \E c \in ExpectedCols :
                uploaded_file = FileOf(DropColumn(UploadTable(n, f), c))

\* The draws of lines 87-99 for one row.  The seed fixes them, the model
\* leaves them open: each row takes the low ends of the ranges, the high
\* ends, or a mix.
SampleDraws ==
    {[cust |-> 1000, delay |-> 1, acc |-> 1, stock |-> 50, age |-> 1, ship |-> 5,
      reason |-> "Damaged", freq |-> 1, money |-> 20],
     [cust |-> 1099, delay |-> 6, acc |-> 0, stock |-> 499, age |-> 99, ship |-> 49,
      reason |-> "Wrong Item", freq |-> 9, money |-> 499],
     [cust |-> 1000, delay |-> 6, acc |-> 1, stock |-> 499, age |-> 1, ship |-> 5,
      reason |-> "Late Delivery", freq |-> 9, money |-> 20]}

SampleCols ==
    ExpectedCols \cup {"Customer_ID", "Order_Accuracy", "Stock_Level", "Inventory_Age_Days"}

\* lines 85-100
SampleRow(i, w) ==
    [Order_ID |-> Int2Num(i),
     Customer_ID |-> Int2Num(w.cust),
     Order_Date |-> Ts(ToOrdinal(2023, 1, 1) + (i - 1)),
     Delivery_Date |-> Ts(ToOrdinal(2023, 1, 3) + (i - 1) + w.delay),
     Order_Accuracy |-> Int2Num(w.acc),
     Stock_Level |-> Int2Num(w.stock),
     Inventory_Age_Days |-> Int2Num(w.age),
     Shipping_Cost |-> Int2Num(w.ship),
     Return_Reason |-> Str(w.reason),
     Purchase_Frequency |-> Int2Num(w.freq),
     Monetary_Value |-> Int2Num(w.money)]

SampleTables ==
    {Table(SampleCols, [i \in 1..SampleRows |-> SampleRow(i, f[i])]) :
        f \in [1..SampleRows -> SampleDraws]}

\* ------------------------------------------------------------------ the script
InitWith(families) ==
    /\ dataset_option \in {"Generate Sample Dataset", "Upload CSV/Excel"}
    /\ IF dataset_option = "Upload CSV/Excel"
          THEN UploadChoice(families)
          ELSE uploaded_file = NoFile
    /\ df = NoneDF
    /\ numeric_cols = {}
    /\ pc = "load"
    /\ error = ""
    /\ steps = <<>>
    /\ loaded = NoneDF

Init == InitWith(RowFamilies)

\* the same script started on the uploads of two families only
InitOrder == InitWith({MixedRows, CostRows})

\* lines 68-79: the upload branch.  No file leaves df None; a file that
\* read_csv / read_excel cannot parse raises, the except clause reports it
\* in the sidebar and df stays None.
LoadUpload ==
    /\ pc = "load"
    /\ dataset_option = "Upload CSV/Excel"
    /\ df' = IF uploaded_file.kind = "table" THEN uploaded_file.table ELSE NoneDF
    /\ loaded' = df'
    /\ pc' = "check"
    /\ UNCHANGED <<dataset_option, uploaded_file, numeric_cols, error, steps>>

\* lines 81-100: the generated sample
GenerateSample ==
    /\ pc = "load"
    /\ dataset_option = "Generate Sample Dataset"
    /\ df' \in SampleTables
    /\ loaded' = df'
    /\ pc' = "check"
    /\ UNCHANGED <<dataset_option, uploaded_file, numeric_cols, error, steps>>

\* lines 103-105: st.stop() ends the run when there is no table
StopIfNone ==
    /\ pc = "check"
    /\ pc' = IF df.none THEN "stopped" ELSE StepOrder[1]
    /\ UNCHANGED <<dataset_option, uploaded_file, df, numeric_cols, error, steps, loaded>>

\* one pipeline statement: it completes and the script moves on, or it
\* raises and the run ends with df as it stands
Run(name, exc) ==
    /\ pc = name
    /\ LET r == Statement(name, df)
       IN  /\ df' = r.df
           /\ pc' = IF r.ok THEN After(name) ELSE "raised"
           /\ error' = IF r.ok THEN error ELSE exc
           /\ steps' = IF r.ok THEN Append(steps, name) ELSE steps
    /\ UNCHANGED <<dataset_option, uploaded_file, loaded>>

\* lines 110-113
CleanStep ==
    /\ numeric_cols' = SelectNumeric(df)
    /\ Run("impute", "ValueError")

\* line 115
OrderDateStep == Run("order_date", "KeyError") /\ UNCHANGED numeric_cols

\* line 116
DeliveryDateStep == Run("delivery_date", "KeyError") /\ UNCHANGED numeric_cols

\* line 117
LeadTimeStep == Run("lead_time", "KeyError") /\ UNCHANGED numeric_cols

\* line 118
RfmStep == Run("rfm", "KeyError") /\ UNCHANGED numeric_cols

\* line 119
NormalizeStep ==
    /\ Run("normalize",
           IF "Shipping_Cost" \in df.cols THEN "ValueError" ELSE "KeyError")
    /\ UNCHANGED numeric_cols

Next ==
    \/ LoadUpload
    \/ GenerateSample
    \/ StopIfNone
    \/ CleanStep
    \/ OrderDateStep
    \/ DeliveryDateStep
    \/ LeadTimeStep
    \/ RfmStep
    \/ NormalizeStep

Spec == Init /\ [][Next]_vars

\* the specification the reordering property is checked under: every
\* reordering of every table is run, so the tables are fewer
SpecOrder == InitOrder /\ [][Next]_vars

\* ------------------------------------------------------------------ properties
Completed(name) == \E k \in DOMAIN steps : steps[k] = name
JustImputed == steps = <<"impute">>
Rows(t) == 1..NRows(t)
Cell(t, i, c) == t.rows[i][c]
RatIsInt(a, i) == IsNum(a) /\ a.n = i * a.d

\* a cell of the loaded table that to_datetime cannot turn into a date
Unparseable(c) ==
    \/ c.k \in {"nan", "nat", "str"}
    \/ c.k = "datetext" /\ ~ValidDate(c.y, c.m, c.d)

\* C1: once the imputation statement has completed, no cell of a numeric
\* column of the loaded table is missing.
C1_NoMissingAfterImputation ==
    Completed("impute") =>
        \A c \in SelectNumeric(loaded) : \A i \in Rows(df) : ~IsMissing(Cell(df, i, c))

C1_Witness ==
    /\ Completed("impute")
    /\ \E c \in SelectNumeric(loaded) : \E i \in Rows(loaded) : IsMissing(Cell(loaded, i, c))

Observed(col) == {col[i] : i \in {j \in DOMAIN col : IsNum(col[j])}}
Least(vals) == CHOOSE m \in vals : \A v \in vals : RatLe(m, v)
Greatest(vals) == CHOOSE m \in vals : \A v \in vals : RatLe(v, m)

\* C3: when the loaded Shipping_Cost column holds at least two distinct
\* values, the finished table has every Normalized_Shipping_Cost in [0, 1]
\* and equal to (x - min) / (max - min), 0 on the rows holding the minimum
\* and 1 on the rows holding the maximum.
C3_NormalizedBounds ==
    (pc = "done" /\ Cardinality(Observed(Column(loaded, "Shipping_Cost"))) >= 2) =>
        LET lo == Least(Observed(Column(loaded, "Shipping_Cost")))
            hi == Greatest(Observed(Column(loaded, "Shipping_Cost")))
        IN  \A i \in Rows(df) :
                LET x == Cell(df, i, "Shipping_Cost")
                    v == Cell(df, i, "Normalized_Shipping_Cost")
                IN  /\ IsNum(v)
                    /\ RatLe(Int2Num(0), v) /\ RatLe(v, Int2Num(1))
                    /\ RatLe(lo, x) /\ RatLe(x, hi)
                    /\ (x = lo) => (v = Int2Num(0))
                    /\ (x = hi) => (v = Int2Num(1))
                    /\ v.n * (hi.n * lo.d - lo.n * hi.d) * x.d * lo.d
                          = (x.n * lo.d - lo.n * x.d) * v.d * hi.d * lo.d

C3_Witness ==
    /\ pc = "done"
    /\ Cardinality(Observed(Column(loaded, "Shipping_Cost"))) >= 2
    /\ \E i \in Rows(df) :
          /\ IsMissing(Cell(loaded, i, "Shipping_Cost"))
          /\ Cell(df, i, "Normalized_Shipping_Cost") = Num(1, 2)

\* C4: once RFM_Score exists, it is on every row exactly the product of the
\* row's Purchase_Frequency and Monetary_Value as the table holds them.
C4_RfmProduct ==
    Completed("rfm") =>
        \A i \in Rows(df) :
            LET f == Cell(df, i, "Purchase_Frequency")
                m == Cell(df, i, "Monetary_Value")
                r == Cell(df, i, "RFM_Score")
            IN  /\ IsNum(f) /\ IsNum(m) /\ IsNum(r)
                /\ r.n * f.d * m.d = f.n * m.n * r.d

C4_Witness ==
    /\ Completed("rfm")
    /\ \E i \in Rows(df) :
          /\ IsMissing(Cell(loaded, i, "Purchase_Frequency"))
          /\ IsNum(Cell(df, i, "RFM_Score"))
          /\ Cell(df, i, "RFM_Score").d # 1

\* the columns lines 115-119 read
RequiredCols ==
    {"Order_Date", "Delivery_Date", "Purchase_Frequency", "Monetary_Value", "Shipping_Cost"}

\* C5: a run that ended in an exception leaves a table with none of the
\* derived columns.
C5_DerivedAllOrNothing ==
    pc = "raised" => df.cols \cap DerivedCols = {}

\* the upload is invalid: no file, a file that cannot be parsed, or a table
\* lacking a column the pipeline reads
InvalidInput ==
    /\ dataset_option = "Upload CSV/Excel"
    /\ \/ uploaded_file.kind \in {"none", "corrupt"}
       \/ uploaded_file.kind = "table" /\ ~(RequiredCols \subseteq uploaded_file.table.cols)

\* C6: on an invalid input no pipeline statement is executed.
C6_NoStepOnInvalidInput ==
    InvalidInput => steps = <<>>

\* C7: imputing the imputed table again changes nothing (the imputation
\* completed, so every numeric column had an observed value).
C7_ImputeIdempotent ==
    JustImputed => Clean(df) = Done(df)

C7_Witness ==
    /\ JustImputed
    /\ NRows(df) >= 2
    /\ \E i \in Rows(loaded) : IsMissing(Cell(loaded, i, "Monetary_Value"))
    /\ Clean(df).ok

\* the total of the observed cells of rows i.. of a column
RECURSIVE TotalFrom(_, _)
TotalFrom(col, i) ==
    IF i > Len(col) THEN Int2Num(0)
    ELSE IF IsNum(col[i]) THEN RatAdd(col[i], TotalFrom(col, i + 1))
    ELSE TotalFrom(col, i + 1)

\* m is the arithmetic mean of the observed cells of col
IsMeanOf(m, col) ==
    LET total == TotalFrom(col, 1)
        count == Cardinality({i \in DOMAIN col : ~IsMissing(col[i])})
    IN  /\ IsNum(m)
        /\ count > 0
        /\ m.n * count * total.d = total.n * m.d

\* C8: right after the imputation the table has the loaded table's columns
\* and rows; a missing cell of a numeric column holds the mean of the
\* column's observed values, and every other cell is as it was loaded,
\* the missing cells of non-numeric columns included.
C8_ImputeFrame ==
    JustImputed =>
        /\ df.cols = loaded.cols
        /\ NRows(df) = NRows(loaded)
        /\ \A i \in Rows(loaded) : \A c \in loaded.cols :
              IF c \in SelectNumeric(loaded) /\ IsMissing(Cell(loaded, i, c))
                  THEN IsMeanOf(Cell(df, i, c), Column(loaded, c))
                  ELSE Cell(df, i, c) = Cell(loaded, i, c)

C8_Witness ==
    /\ JustImputed
    /\ "Return_Reason" \notin SelectNumeric(loaded)
    /\ \E i \in Rows(loaded) :
          /\ IsMissing(Cell(loaded, i, "Return_Reason"))
          /\ IsMissing(Cell(df, i, "Return_Reason"))
    /\ \E i \in Rows(loaded) :
          /\ IsMissing(Cell(loaded, i, "Shipping_Cost"))
          /\ Cell(df, i, "Shipping_Cost") = Int2Num(20)

RowOrders(n) == {p \in [1..n -> 1..n] : \A i, j \in 1..n : p[i] = p[j] => i = j}
Permute(t, p) == Table(t.cols, [i \in Rows(t) |-> t.rows[p[i]]])

C10_StepOrderAndCompleteness ==
    /\ \A k \in DOMAIN steps :
          steps[k] =
              <<"impute", "order_date", "delivery_date", "lead_time", "rfm", "normalize">>[k]
    /\ pc = "done" =>
          /\ Len(steps) = 6
          /\ DerivedCols \subseteq df.cols
          /\ \A i \in Rows(df) :
                /\ IsNum(Cell(df, i, "RFM_Score"))
                /\ IsNum(Cell(df, i, "Normalized_Shipping_Cost"))
                /\ \A c \in SelectNumeric(df) \ {"Lead_Time_Days"} : IsNum(Cell(df, i, c))

C10_Witness ==
    /\ pc = "done"
    /\ "Lead_Time_Days" \in SelectNumeric(df)
    /\ \E i \in Rows(df) : IsMissing(Cell(df, i, "Lead_Time_Days"))
    /\ \E i \in Rows(df) :
          /\ IsMissing(Cell(loaded, i, "Purchase_Frequency"))
          /\ IsNum(Cell(df, i, "RFM_Score"))
    /\ \E i \in Rows(df) :
          /\ IsMissing(Cell(loaded, i, "Shipping_Cost"))
          /\ IsNum(Cell(df, i, "Normalized_Shipping_Cost"))

====
